---- MODULE Spec2Model ----
(***************************************************************************)
(* Model of the ECG processing repository Projeto_SSC:                     *)
(*   src/src/classification/__init__.py      SignalClassifier              *)
(*   src/src/preprocessing/__init__.py       filter, normaliser, quality,  *)
(*                                           pipeline, persistence         *)
(*   src/src/feature_extraction/__init__.py  extractors, multi-channel     *)
(* Each component has its own specification over its own variables; the    *)
(* variables of the other components stay at their initial values.         *)
(***************************************************************************)
EXTENDS Integers, Sequences, FiniteSets, TLC

VARIABLES
    \* ---- SignalClassifier (classification/__init__.py) ----
    is_trained,     \* self.is_trained
    fitted_cols,    \* state of self.model: 0 = never fitted, else feature count of the last completed fit
    clf_log,        \* history of the calls made on the classifier, oldest first
    \* ---- aplicar_filtro (preprocessing/__init__.py) ----
    flt_call,       \* arguments of the last aplicar_filtro call, NoCall before the first
    flt_res,        \* what that call returned or raised
    \* ---- pipeline_preprocessamento (preprocessing/__init__.py) ----
    p_pc,           \* position in the function: idle, load, drift, band, norm, qual, done
    p_args,         \* filepath and the three flags of the call
    p_sinal,        \* local variable sinal
    p_meta,         \* local variable metadata
    p_trace,        \* stages executed so far, each with the signal it took and gave
    p_warn,         \* warnings emitted so far
    p_result,       \* what the call returned or raised
    \* ---- salvar_dados_processados (preprocessing/__init__.py) ----
    fs_dirs,        \* the directories that exist under the output directories
    fs_files,       \* the files that exist: path -> content
    fs_origem,      \* path -> number of the call that last wrote the file
    relogio,        \* wall clock, in ticks
    sv_hist,        \* the calls made so far with what each returned or raised
    sv_antes,       \* directories and files as they were before the last call
    \* ---- pipeline_multicanal (feature_extraction/__init__.py) ----
    mc_pc,          \* position in the function: idle, loop, done
    mc_args,        \* the file at filepath_npz, canais and salvar_features
    mc_signals,     \* local variable signals
    mc_metadata,    \* local variable metadata
    mc_canais,      \* the list the loop runs over
    mc_i,           \* number of loop iterations completed
    mc_resultados,  \* local variable resultados
    mc_salvos,      \* local variable arquivos_salvos
    mc_result,      \* what the call returned or raised
    \* ---- normalizar_sinal on sample values (preprocessing/__init__.py) ----
    nz_call,        \* arguments of the last normalizar_sinal call
    nz_res,         \* what that call returned or raised
    nz_array,       \* the caller's array after the call
    \* ---- verificar_qualidade_sinal on sample values (preprocessing/__init__.py) ----
    ql_call,        \* arguments of the last verificar_qualidade_sinal call
    ql_res,         \* what that call returned or raised
    \* ---- extract_features_canal / pipeline_extract_features (feature_extraction/__init__.py) ----
    fx_call,        \* function called and its arguments
    fx_res,         \* what that call returned or raised
    \* ---- extract_frequency_features (feature_extraction/__init__.py) ----
    fq_call,        \* arguments of the last extract_frequency_features call
    fq_power,       \* the power spectrum the call formed, as numerators over fq_call.escala
    fq_res,         \* the dictionary the call returned
    \* ---- one channel given to both zero-crossing counters ----
    zc_canal,       \* the channel
    zc_qualidade,   \* what verificar_qualidade_sinal returned for it
    zc_tempo        \* what extract_time_features returned for it

clfVars == <<is_trained, fitted_cols, clf_log>>
fltVars == <<flt_call, flt_res>>
pipeVars == <<p_pc, p_args, p_sinal, p_meta, p_trace, p_warn, p_result>>
svVars == <<fs_dirs, fs_files, fs_origem, relogio, sv_hist, sv_antes>>
mcVars == <<mc_pc, mc_args, mc_signals, mc_metadata, mc_canais, mc_i,
            mc_resultados, mc_salvos, mc_result>>

nzVars == <<nz_call, nz_res, nz_array>>
qlVars == <<ql_call, ql_res>>
fxVars == <<fx_call, fx_res>>
fqVars == <<fq_call, fq_power, fq_res>>
zcVars == <<zc_canal, zc_qualidade, zc_tempo>>

vars == <<clfVars, fltVars, pipeVars, svVars, mcVars, nzVars, qlVars, fxVars, fqVars, zcVars>>

\* the variables a component leaves alone
foraClf == <<fltVars, pipeVars, svVars, mcVars, nzVars, qlVars, fxVars, fqVars, zcVars>>
foraFlt == <<clfVars, pipeVars, svVars, mcVars, nzVars, qlVars, fxVars, fqVars, zcVars>>
foraPipe == <<clfVars, fltVars, svVars, mcVars, nzVars, qlVars, fxVars, fqVars, zcVars>>
foraSv == <<clfVars, fltVars, pipeVars, mcVars, nzVars, qlVars, fxVars, fqVars, zcVars>>
foraMc == <<clfVars, fltVars, pipeVars, svVars, nzVars, qlVars, fxVars, fqVars, zcVars>>
foraNz == <<clfVars, fltVars, pipeVars, svVars, mcVars, qlVars, fxVars, fqVars, zcVars>>
foraQl == <<clfVars, fltVars, pipeVars, svVars, mcVars, nzVars, fxVars, fqVars, zcVars>>
foraFx == <<clfVars, fltVars, pipeVars, svVars, mcVars, nzVars, qlVars, fqVars, zcVars>>
foraFq == <<clfVars, fltVars, pipeVars, svVars, mcVars, nzVars, qlVars, fxVars, zcVars>>
foraZc == <<clfVars, fltVars, pipeVars, svVars, mcVars, nzVars, qlVars, fxVars, fqVars>>

NoCall == [none |-> TRUE]

(***************************************************************************)
(* Bounds                                                                  *)
(***************************************************************************)
MaxCalls == 4       \* calls made on one classifier
MaxRows == 2        \* rows of a feature matrix / length of a label vector
MaxCols == 2        \* columns of a feature matrix

(***************************************************************************)
(* SignalClassifier                                                        *)
(***************************************************************************)
Matrices == [rows : 0..MaxRows, cols : 1..MaxCols]
Labels == 0..MaxRows

\* self.model.fit(X, y) raises on an empty or inconsistent training set.
FitRaises(X, y) == X.rows = 0 \/ X.rows # y

\* self.model.predict(X) raises on an empty matrix or a wrong feature count.
ModelPredictRaises(X) == X.rows = 0 \/ X.cols # fitted_cols

\* the sklearn metric functions raise when y_test and y_pred differ in length.
MetricsRaise(X, y) == X.rows # y

ClfEntry(op, outcome, reached) == [op |-> op, outcome |-> outcome, reached |-> reached]

ClfInit ==
    /\ is_trained = FALSE
    /\ fitted_cols = 0
    /\ clf_log = <<>>

\* A train that marks the classifier trained before the fit has completed.
train_flag_first(X, y) ==
    /\ Len(clf_log) < MaxCalls
    /\ is_trained' = TRUE
    /\ IF FitRaises(X, y)
       THEN /\ clf_log' = Append(clf_log, ClfEntry("train", "FitError", TRUE))
            /\ UNCHANGED fitted_cols
       ELSE /\ fitted_cols' = X.cols
            /\ clf_log' = Append(clf_log, ClfEntry("train", "ok", TRUE))

train(X, y) ==
    /\ Len(clf_log) < MaxCalls
    /\ IF FitRaises(X, y)
       THEN /\ clf_log' = Append(clf_log, ClfEntry("train", "FitError", TRUE))
            /\ UNCHANGED <<is_trained, fitted_cols>>
       ELSE /\ fitted_cols' = X.cols
            /\ is_trained' = TRUE
            /\ clf_log' = Append(clf_log, ClfEntry("train", "ok", TRUE))

predict(X) ==
    /\ Len(clf_log) < MaxCalls
    /\ UNCHANGED <<is_trained, fitted_cols>>
    /\ IF ~is_trained
       THEN clf_log' = Append(clf_log, ClfEntry("predict", "ValueError", FALSE))
       ELSE IF ModelPredictRaises(X)
            THEN clf_log' = Append(clf_log, ClfEntry("predict", "ModelError", TRUE))
            ELSE clf_log' = Append(clf_log, ClfEntry("predict", "ok", TRUE))

evaluate(X, y) ==
    /\ Len(clf_log) < MaxCalls
    /\ UNCHANGED <<is_trained, fitted_cols>>
    /\ IF ~is_trained
       THEN clf_log' = Append(clf_log, ClfEntry("evaluate", "ValueError", FALSE))
       ELSE IF ModelPredictRaises(X)
            THEN clf_log' = Append(clf_log, ClfEntry("evaluate", "ModelError", TRUE))
            ELSE IF MetricsRaise(X, y)
                 THEN clf_log' = Append(clf_log, ClfEntry("evaluate", "MetricError", TRUE))
                 ELSE clf_log' = Append(clf_log, ClfEntry("evaluate", "ok", TRUE))

ClfTrain == \E X \in Matrices, y \in Labels : train(X, y)
ClfPredict == \E X \in Matrices : predict(X)
ClfEvaluate == \E X \in Matrices, y \in Labels : evaluate(X, y)

\* some train call among the first n calls returned normally
TrainCompletedBefore(n) ==
    \E i \in 1..n : clf_log[i].op = "train" /\ clf_log[i].outcome = "ok"

\* C1: predict and evaluate raise the not-trained error without reaching the
\* model unless an earlier train call completed; a train that fails in fit
\* leaves an untrained classifier untrained; a trained classifier stays
\* trained (is_trained is exactly "some train call has completed").
C1_TrainedGuard ==
    /\ is_trained = TrainCompletedBefore(Len(clf_log))
    /\ \A i \in 1..Len(clf_log) :
          clf_log[i].op \in {"predict", "evaluate"} =>
             IF TrainCompletedBefore(i - 1)
             THEN clf_log[i].outcome # "ValueError" /\ clf_log[i].reached
             ELSE clf_log[i].outcome = "ValueError" /\ ~clf_log[i].reached

C1_Witness ==
    /\ Len(clf_log) = 4
    /\ clf_log[1] = ClfEntry("train", "FitError", TRUE)
    /\ clf_log[2] = ClfEntry("predict", "ValueError", FALSE)
    /\ clf_log[3] = ClfEntry("train", "ok", TRUE)
    /\ clf_log[4] = ClfEntry("evaluate", "ok", TRUE)
    /\ is_trained

(***************************************************************************)
(* Signals.  A signal is an ndarray: its shape, the record it was loaded   *)
(* from and the transformations applied to it so far, oldest first.  The   *)
(* Butterworth design and the zero-phase filtering are library routines    *)
(* (scipy.signal.butter / filtfilt); what the model keeps of them is when  *)
(* they raise and which transformation they add to the signal.             *)
(* Frequencies are counted in half hertz, so that a cutoff f normalised by *)
(* the Nyquist frequency 0.5*fs is f / fs.                                 *)
(***************************************************************************)
Op(name, par) == [op |-> name, par |-> par]

Sinal(shape, src, ops) == [shape |-> shape, src |-> src, ops |-> ops]

NoSinal == Sinal(<<>>, "none", <<>>)

ndim(sinal) == Len(sinal.shape)

\* sinal.reshape(-1, 1) of a one-dimensional array
reshape_coluna(sinal) == Sinal(<<sinal.shape[1], 1>>, sinal.src, sinal.ops)

\* frequencias is a tuple (a sequence) or a bare number
Tupla(f) == [tuple |-> TRUE, f |-> f]
Escalar(x) == [tuple |-> FALSE, f |-> <<x>>]

\* what a call gives back: a value, or an exception of some type raised at some
\* point of the function; warned tells whether warnings.warn was called
Ok(val, warned) ==
    [kind |-> "ok", type |-> "none", stage |-> "return", val |-> val, warned |-> warned]
Raise(type, stage, warned) ==
    [kind |-> "raise", type |-> type, stage |-> stage, val |-> NoSinal, warned |-> warned]

\* len(a) = len(b) of signal.butter(ordem, Wn, btype=tipo)
butter_ntaps(ordem, tipo) == IF tipo = "bandpass" THEN 2 * ordem + 1 ELSE ordem + 1

\* signal.butter raises unless every normalised cutoff is inside (0, 1)
butter_raises(cutoffs, fs) == \E i \in DOMAIN cutoffs : cutoffs[i] <= 0 \/ cutoffs[i] >= fs

\* signal.filtfilt raises unless the channel is longer than padlen = 3 * ntaps
filtfilt_raises(n, ordem, tipo) == n <= 3 * butter_ntaps(ordem, tipo)

\* lines 56-68, once the normalised cutoffs are known
filtrar(sinal, fs, tipo, cutoffs, ordem) ==
    LET warned == \E i \in DOMAIN cutoffs : cutoffs[i] >= fs
    IN  IF butter_raises(cutoffs, fs) THEN Raise("ValueError", "design", warned)
        \* sinal.shape[1] of a zero-dimensional array (line 65)
        ELSE IF ndim(sinal) = 0 THEN Raise("IndexError", "apply", warned)
        ELSE IF sinal.shape[2] > 0 /\ filtfilt_raises(sinal.shape[1], ordem, tipo)
             THEN Raise("ValueError", "apply", warned)
             ELSE Ok(Sinal(sinal.shape, sinal.src,
                           Append(sinal.ops, Op(tipo, <<ordem>> \o cutoffs))), warned)

aplicar_filtro(sinal0, fs, tipo, frequencias, ordem) ==
    IF ndim(sinal0) > 2 THEN Raise("ValueError", "validate", FALSE)
    ELSE LET sinal == IF ndim(sinal0) = 1 THEN reshape_coluna(sinal0) ELSE sinal0
         IN  IF fs <= 0 THEN Raise("ValueError", "validate", FALSE)
             ELSE IF tipo = "bandpass"
                  THEN IF ~frequencias.tuple THEN Raise("TypeError", "validate", FALSE)
                       ELSE IF Len(frequencias.f) # 2 THEN Raise("ValueError", "validate", FALSE)
                       ELSE IF frequencias.f[1] >= frequencias.f[2]
                            THEN Raise("ValueError", "validate", FALSE)
                            ELSE filtrar(sinal, fs, tipo, frequencias.f, ordem)
                  ELSE IF tipo \in {"lowpass", "highpass"}
                       THEN IF frequencias.tuple /\ Len(frequencias.f) = 0
                            THEN Raise("IndexError", "validate", FALSE)
                            ELSE filtrar(sinal, fs, tipo, <<frequencias.f[1]>>, ordem)
                       ELSE Raise("ValueError", "validate", FALSE)

\* remover_baseline_drift: highpass at freq_corte, default order
OrdemPadrao == 4
remover_baseline_drift(sinal, fs, freq_corte) ==
    aplicar_filtro(sinal, fs, "highpass", Tupla(<<freq_corte>>), OrdemPadrao)

(***************************************************************************)
(* aplicar_filtro called on its own                                        *)
(***************************************************************************)
FltLens == {10, 16, 28}
FltShapes ==
    {<<n>> : n \in FltLens}
    \cup {<<n, c>> : n \in FltLens, c \in {1, 2}}
    \cup {<<n, 1, 1>> : n \in FltLens}
FltFs == {0, 50, 100}
FltTipos == {"bandpass", "lowpass", "highpass", "notch"}
FltFreqVals == {1, 90}
FltFrequencias ==
    {Tupla(<<>>), Tupla(<<1, 90, 90>>)}
    \cup {Tupla(<<a>>) : a \in FltFreqVals}
    \cup {Tupla(<<a, b>>) : a \in FltFreqVals, b \in FltFreqVals}
    \cup {Escalar(a) : a \in FltFreqVals}

FltArgs(sinal, fs, tipo, frequencias, ordem) ==
    [sinal |-> sinal, fs |-> fs, tipo |-> tipo, frequencias |-> frequencias, ordem |-> ordem]

FltCall ==
    /\ flt_call = NoCall
    /\ \E shape \in FltShapes, fs \in FltFs, tipo \in FltTipos, fr \in FltFrequencias :
        LET sinal == Sinal(shape, "x", <<>>)
        IN  /\ flt_call' = FltArgs(sinal, fs, tipo, fr, OrdemPadrao)
            /\ flt_res' = aplicar_filtro(sinal, fs, tipo, fr, OrdemPadrao)

FltInit == flt_call = NoCall /\ flt_res = NoCall


\* the parameter cases the filter is said to reject
FltRejeitado(c) ==
    \/ c.fs <= 0
    \/ c.tipo \notin {"bandpass", "lowpass", "highpass"}
    \/ /\ c.tipo = "bandpass"
       /\ \/ ~c.frequencias.tuple
          \/ Len(c.frequencias.f) # 2
          \/ c.frequencias.f[1] >= c.frequencias.f[2]
    \/ /\ c.tipo \in {"lowpass", "highpass"}
       /\ c.frequencias.tuple
       /\ Len(c.frequencias.f) # 1

\* C9: aplicar_filtro raises a validation error before the filter design for
\* fs <= 0, an unknown kind, a bandpass tuple that is not (low, high) with
\* low < high, and a lowpass/highpass tuple without exactly one entry; in every
\* other case it returns a signal of the shape of its input.
C9_FiltroValida ==
    flt_call # NoCall =>
        IF FltRejeitado(flt_call)
        THEN flt_res.kind = "raise" /\ flt_res.type = "ValueError" /\ flt_res.stage = "validate"
        ELSE flt_res.kind = "ok" /\ flt_res.val.shape = flt_call.sinal.shape

(***************************************************************************)
(* Loader, normaliser and quality assessor as the pipeline sees them       *)
(***************************************************************************)
\* A record file: unreadable, or a WFDB record of n samples by nch channels.
Arquivo(ok, fs, n, nch) == [ok |-> ok, fs |-> fs, n |-> n, nch |-> nch]

NoMeta == [none |-> TRUE]

\* load_signal_data: every failure of the WFDB reader becomes a ValueError
load_signal_data(arq) ==
    IF ~arq.ok THEN Raise("ValueError", "load", FALSE)
    ELSE Ok([sinal |-> Sinal(<<arq.n, arq.nch>>, "record", <<>>),
             metadata |-> [fs |-> arq.fs,
                           sig_name |-> [i \in 1..arq.nch |-> i],
                           n_samples |-> arq.n,
                           n_channels |-> arq.nch]], FALSE)

Metodos == {"zscore", "minmax", "robust"}

\* the product of the entries of a shape
RECURSIVE Produto(_)
Produto(shape) == IF Len(shape) = 0 THEN 1 ELSE shape[1] * Produto(Tail(shape))

\* sinal[:, i] has no element although the array has a column i
canal_vazio(sinal) ==
    /\ ndim(sinal) >= 2
    /\ sinal.shape[2] > 0
    /\ Produto([j \in 1..ndim(sinal) |-> IF j = 2 THEN 1 ELSE sinal.shape[j]]) = 0

\* normalizar_sinal on a whole array: validation, reshape and result shape.
\* A zero-dimensional array has no shape[1] and the loop header raises
\* IndexError (line 83); np.min of an empty channel raises (line 85), while
\* the mean, the std and the median of one are nan
normalizar_sinal(sinal0, metodo) ==
    LET sinal == IF ndim(sinal0) = 1 THEN reshape_coluna(sinal0) ELSE sinal0
    IN  IF metodo \notin Metodos THEN Raise("ValueError", "validate", FALSE)
        ELSE IF ndim(sinal) = 0 THEN Raise("IndexError", "index", FALSE)
        ELSE IF metodo = "minmax" /\ canal_vazio(sinal)
        THEN Raise("ValueError", "metrics", FALSE)
        ELSE Ok(Sinal(sinal.shape, sinal.src, Append(sinal.ops, Op(metodo, <<>>))), FALSE)

\* verificar_qualidade_sinal on a whole array: one metrics entry per channel of
\* the array it was given.  A zero-dimensional array has no shape[1] and the
\* loop header raises IndexError (line 154); np.max of an empty channel
\* raises (line 171)
verificar_qualidade_sinal(sinal0, fs) ==
    LET sinal == IF ndim(sinal0) = 1 THEN reshape_coluna(sinal0) ELSE sinal0
    IN  IF fs <= 0 THEN Raise("ValueError", "validate", FALSE)
        ELSE IF ndim(sinal) = 0 THEN Raise("IndexError", "index", FALSE)
        ELSE IF canal_vazio(sinal) THEN Raise("ValueError", "metrics", FALSE)
        ELSE Ok([canais |-> sinal.shape[2], de |-> sinal], FALSE)

\* metadata['qualidade'] = qualidade
com_qualidade(metadata, qualidade) ==
    [k \in DOMAIN metadata \cup {"qualidade"} |->
        IF k = "qualidade" THEN qualidade ELSE metadata[k]]

(***************************************************************************)
(* pipeline_preprocessamento, one step per stage                           *)
(***************************************************************************)
PipeLens == {0, 1, 15, 16, 27, 28, 99, 100}
PipeFs == {50, 100, 500}
PipeChannels == {1, 2}
Arquivos ==
    {Arquivo(FALSE, 0, 0, 0)}
    \cup {Arquivo(TRUE, fs, n, c) : fs \in PipeFs, n \in PipeLens, c \in PipeChannels}

LimiarCurto == 100      \* sinal.shape[0] < 100
CorteDeriva == 1        \* freq_corte = 0.5 Hz
BandaBaixa == 1         \* 0.5 Hz
BandaAlta == 90         \* 45.0 Hz

NoCause == [type |-> "none", stage |-> "none"]

Retorno(sinal, metadata) ==
    [kind |-> "return", type |-> "none", cause |-> NoCause,
     sinal |-> sinal, metadata |-> metadata]

\* An except clause that lets the stage's own exception through.
pipeline_reraise(r) ==
    [kind |-> "raise", type |-> r.type,
     cause |-> [type |-> r.type, stage |-> r.stage],
     sinal |-> NoSinal, metadata |-> NoMeta]

\* except Exception as e: raise RuntimeError(... str(e))
pipeline_except(r) ==
    [kind |-> "raise", type |-> "RuntimeError",
     cause |-> [type |-> r.type, stage |-> r.stage],
     sinal |-> NoSinal, metadata |-> NoMeta]

\* A pipeline that normalises before the bandpass filter.
proximo_norm_antes(pc) ==
    CASE pc = "load" -> "drift"
      [] pc = "drift" -> "norm"
      [] pc = "norm" -> "band"
      [] pc = "band" -> "qual"
      [] pc = "qual" -> "done"

\* the statement order of lines 196-217
proximo(pc) ==
    CASE pc = "load" -> "drift"
      [] pc = "drift" -> "band"
      [] pc = "band" -> "norm"
      [] pc = "norm" -> "qual"
      [] pc = "qual" -> "done"

Estagio(nome, entrada, saida, falhou) ==
    [stage |-> nome, in |-> entrada, out |-> saida, failed |-> falhou]

PipeInit ==
    /\ p_pc = "idle"
    /\ p_args = NoCall
    /\ p_sinal = NoSinal
    /\ p_meta = NoMeta
    /\ p_trace = <<>>
    /\ p_warn = {}
    /\ p_result = NoCall

\* the call itself
PipeStart ==
    /\ p_pc = "idle"
    /\ \E arq \in Arquivos, f \in BOOLEAN, n \in BOOLEAN, d \in BOOLEAN :
          p_args' = [filepath |-> arq, aplicar_filtro_flag |-> f,
                     normalizar_flag |-> n, remover_deriva |-> d]
    /\ p_pc' = "load"
    /\ UNCHANGED <<p_sinal, p_meta, p_trace, p_warn, p_result>>

\* a stage raised: the except clause ends the call
PipeFalha(nome, r) ==
    /\ p_trace' = Append(p_trace, Estagio(nome, p_sinal, NoSinal, TRUE))
    /\ p_result' = pipeline_except(r)
    /\ p_pc' = "done"
    /\ p_warn' = p_warn \cup (IF r.warned THEN {"nyquist"} ELSE {})
    /\ UNCHANGED <<p_args, p_sinal, p_meta>>

\* a signal stage returned
PipePassa(nome, r) ==
    /\ p_trace' = Append(p_trace, Estagio(nome, p_sinal, r.val, FALSE))
    /\ p_sinal' = r.val
    /\ p_pc' = proximo(p_pc)
    /\ p_warn' = p_warn \cup (IF r.warned THEN {"nyquist"} ELSE {})
    /\ UNCHANGED <<p_args, p_meta, p_result>>

\* the stage's flag is off
PipeSalta ==
    /\ p_pc' = proximo(p_pc)
    /\ UNCHANGED <<p_args, p_sinal, p_meta, p_trace, p_warn, p_result>>

\* lines 196-201
PipeLoad ==
    /\ p_pc = "load"
    /\ LET r == load_signal_data(p_args.filepath)
       IN  IF r.kind = "raise" THEN PipeFalha("Load", r)
           ELSE /\ p_sinal' = r.val.sinal
                /\ p_meta' = r.val.metadata
                /\ p_trace' = Append(p_trace, Estagio("Load", NoSinal, r.val.sinal, FALSE))
                /\ p_warn' = IF r.val.sinal.shape[1] < LimiarCurto
                             THEN p_warn \cup {"curto"} ELSE p_warn
                /\ p_pc' = proximo(p_pc)
                /\ UNCHANGED <<p_args, p_result>>

\* lines 204-205
PipeDrift ==
    /\ p_pc = "drift"
    /\ IF p_args.remover_deriva
       THEN LET r == remover_baseline_drift(p_sinal, p_meta.fs, CorteDeriva)
            IN  IF r.kind = "raise" THEN PipeFalha("RemoveBaselineDrift", r)
                ELSE PipePassa("RemoveBaselineDrift", r)
       ELSE PipeSalta

\* lines 207-208
PipeBand ==
    /\ p_pc = "band"
    /\ IF p_args.aplicar_filtro_flag
       THEN LET r == aplicar_filtro(p_sinal, p_meta.fs, "bandpass",
                                    Tupla(<<BandaBaixa, BandaAlta>>), OrdemPadrao)
            IN  IF r.kind = "raise" THEN PipeFalha("Bandpass", r)
                ELSE PipePassa("Bandpass", r)
       ELSE PipeSalta

\* lines 210-211
PipeNorm ==
    /\ p_pc = "norm"
    /\ IF p_args.normalizar_flag
       THEN LET r == normalizar_sinal(p_sinal, "zscore")
            IN  IF r.kind = "raise" THEN PipeFalha("Normalize", r)
                ELSE PipePassa("Normalize", r)
       ELSE PipeSalta

\* lines 214-217
PipeQual ==
    /\ p_pc = "qual"
    /\ LET r == verificar_qualidade_sinal(p_sinal, p_meta.fs)
       IN  IF r.kind = "raise" THEN PipeFalha("AssessQuality", r)
           ELSE /\ p_trace' = Append(p_trace, Estagio("AssessQuality", p_sinal, p_sinal, FALSE))
                /\ p_meta' = com_qualidade(p_meta, r.val)
                /\ p_result' = Retorno(p_sinal, p_meta')
                /\ p_pc' = proximo(p_pc)
                /\ UNCHANGED <<p_args, p_sinal, p_warn>>

Ordem(nome) ==
    CASE nome = "Load" -> 1
      [] nome = "RemoveBaselineDrift" -> 2
      [] nome = "Bandpass" -> 3
      [] nome = "Normalize" -> 4
      [] nome = "AssessQuality" -> 5

\* the stages the flags of the call ask for
Pedidos ==
    {"Load", "AssessQuality"}
    \cup (IF p_args.remover_deriva THEN {"RemoveBaselineDrift"} ELSE {})
    \cup (IF p_args.aplicar_filtro_flag THEN {"Bandpass"} ELSE {})
    \cup (IF p_args.normalizar_flag THEN {"Normalize"} ELSE {})

Executados == {p_trace[i].stage : i \in 1..Len(p_trace)}

\* C2: for every flag combination the executed stages are in the order Load,
\* RemoveBaselineDrift, Bandpass, Normalize, AssessQuality, none twice and none
\* before Load; each takes the signal the previous one gave; only requested
\* stages run and a call that returns has run all of them; the stored quality
\* metrics are those of the returned signal.
C2_OrdemDosEstagios ==
    /\ Len(p_trace) > 0 => p_trace[1].stage = "Load"
    /\ \A i \in 2..Len(p_trace) :
          /\ Ordem(p_trace[i - 1].stage) < Ordem(p_trace[i].stage)
          /\ p_trace[i].in = p_trace[i - 1].out
    /\ Len(p_trace) > 0 => Executados \subseteq Pedidos
    /\ (p_result # NoCall /\ p_result.kind = "return") =>
          /\ Executados = Pedidos
          /\ p_result.sinal = p_trace[Len(p_trace)].out
          /\ p_result.metadata.qualidade.de = p_result.sinal
          /\ p_result.metadata.qualidade.canais = p_result.sinal.shape[2]

C2_Witness ==
    /\ p_result # NoCall
    /\ p_result.kind = "return"
    /\ Len(p_trace) = 5
    /\ Len(p_result.sinal.ops) = 3
    /\ p_result.sinal.ops[3].op = "zscore"

\* C3: whichever stage fails, the call raises RuntimeError carrying the
\* stage's error; the failing stage is the last one executed and neither a
\* signal nor metadata is returned.
C3_ErroUnico ==
    /\ \A i \in 1..Len(p_trace) :
          p_trace[i].failed =>
             /\ i = Len(p_trace)
             /\ p_pc = "done"
             /\ p_result # NoCall
             /\ p_result.kind = "raise"
    /\ (p_result # NoCall /\ p_result.kind = "raise") =>
          /\ p_result.type = "RuntimeError"
          /\ p_result.cause.type # "none"
          /\ p_trace[Len(p_trace)].failed
          /\ p_result.sinal = NoSinal
          /\ p_result.metadata = NoMeta

\* a failure in the loader and one in a later stage, both seen as RuntimeError
C3_Witness ==
    /\ p_result # NoCall
    /\ p_result.kind = "raise"
    /\ p_result.type = "RuntimeError"
    /\ p_result.cause.type = "ValueError"
    /\ p_trace[Len(p_trace)].stage = "Bandpass"
    /\ Len(p_trace) = 3

\* C12: a call that loaded a signal of 1 to 99 samples, whatever the flags,
\* has warned about the short signal and, once over, has returned the
\* processed signal and metadata carrying 'qualidade' instead of raising.
C12_CurtoCompleta ==
    (/\ Len(p_trace) > 0
     /\ ~p_trace[1].failed
     /\ p_trace[1].out.shape[1] \in 1..(LimiarCurto - 1)) =>
        /\ "curto" \in p_warn
        /\ p_pc = "done" =>
              /\ p_result.kind = "return"
              /\ p_result.sinal = p_trace[Len(p_trace)].out
              /\ p_result.metadata.qualidade.de = p_result.sinal

(***************************************************************************)
(* salvar_dados_processados over a file system                             *)
(***************************************************************************)
MaxSaves == 2           \* calls of salvar_dados_processados
MaxRelogio == 3         \* last tick of the clock
TicksPorSegundo == 2    \* the clock is finer than the timestamp's seconds

\* dict.get(k, default)
get(m, k, default) == IF k \in DOMAIN m THEN m[k] ELSE default

VazioDict == <<>>

RECURSIVE Digitos(_)
\* the decimal digits of n >= 0, most significant first
Digitos(n) == IF n < 10 THEN <<n>> ELSE Append(Digitos(n \div 10), n % 10)

\* format(n, "0<w>d"): zeros in front up to w digits, never cut
ZeroPad(n, w) ==
    LET d == Digitos(n)
    IN  IF Len(d) >= w THEN d ELSE [i \in 1..(w - Len(d)) |-> 0] \o d

\* strftime("%Y%m%d_%H%M%S") of the clock: whole seconds
timestamp_de(t) == t \div TicksPorSegundo

\* A shard number counted from ecg_id instead of ecg_id - 1.
folder_number_sem_menos_um(ecg_id) == ecg_id \div 1000

\* line 240
folder_number(ecg_id) == (ecg_id - 1) \div 1000

\* line 241
folder_name(ecg_id) == [prefixo |-> "records", digitos |-> ZeroPad(folder_number(ecg_id), 3)]

Caminho(output_dir, pasta, digitos, sufixo) ==
    [dir |-> output_dir, pasta |-> pasta, digitos |-> digitos, sufixo |-> sufixo]

\* lines 251-252
arquivo_sinal(output_dir, ecg_id) ==
    Caminho(output_dir, folder_name(ecg_id), ZeroPad(ecg_id, 5), "_processed.npz")
arquivo_metadata(output_dir, ecg_id) ==
    Caminho(output_dir, folder_name(ecg_id), ZeroPad(ecg_id, 5), "_metadata.json")

\* sinal.size: the product of all the dimensions
size(sinal) == Produto(sinal.shape)

\* the arrays np.savez_compressed stores (lines 256-261)
conteudo_npz(sinal, metadata, ecg_id, ts) ==
    [sinal |-> sinal, ecg_id |-> ecg_id, timestamp |-> ts,
     shape |-> sinal.shape, fs |-> get(metadata, "fs", 100)]

\* lines 294-298
canais_bons(metadata) ==
    IF "qualidade" \in DOMAIN metadata
    THEN Cardinality({i \in 0..(get(metadata, "n_channels", 0) - 1) :
                        /\ i \in DOMAIN metadata.qualidade
                        /\ get(metadata.qualidade[i], "snr_estimado", 0) >= 15})
    ELSE 0

\* metadata_completo (lines 264-298); the global amplitude statistics are
\* numpy reductions of the array and are kept as "those of this sinal"
metadata_completo(sinal, metadata, ecg_id, ts) ==
    [processamento |-> [timestamp |-> ts, ecg_id |-> ecg_id,
                        pasta_destino |-> folder_name(ecg_id),
                        versao_preprocessing |-> "1.0"],
     dados_originais |-> [fs |-> get(metadata, "fs", 100),
                          sig_name |-> get(metadata, "sig_name", <<>>),
                          n_samples |-> get(metadata, "n_samples", 0),
                          n_channels |-> get(metadata, "n_channels", 0),
                          duracao_segundos |-> [num |-> get(metadata, "n_samples", 0),
                                                den |-> get(metadata, "fs", 1)]],
     qualidade |-> get(metadata, "qualidade", VazioDict),
     estatisticas |-> IF ndim(sinal) = 2
                      THEN [amplitudes_de |-> sinal,
                            canais_com_boa_qualidade |-> canais_bons(metadata)]
                      ELSE VazioDict]

\* line 276 divides by metadata.get('fs', 1)
metadata_completo_raises(metadata) == get(metadata, "fs", 1) = 0

\* A write that keeps the old quality section when the new one is empty.
escrever_mesclando(files, caminho, conteudo) ==
    [c \in DOMAIN files \cup {caminho} |->
        IF c # caminho THEN files[c]
        ELSE IF /\ caminho \in DOMAIN files
                /\ "qualidade" \in DOMAIN conteudo
                /\ conteudo.qualidade = VazioDict
             THEN [conteudo EXCEPT !.qualidade = files[caminho].qualidade]
             ELSE conteudo]

\* np.savez_compressed(path, ...) and open(path, 'w') + json.dump: the file
\* holds what was written and nothing else
escrever(files, caminho, conteudo) ==
    [c \in DOMAIN files \cup {caminho} |-> IF c = caminho THEN conteudo ELSE files[c]]

SvRetorno(a, b) == [kind |-> "return", type |-> "none", paths |-> <<a, b>>]
SvRaise(type) == [kind |-> "raise", type |-> type, paths |-> <<>>]

Efeito(res, dirs, files, escritos) ==
    [res |-> res, dirs |-> dirs, files |-> files, escritos |-> escritos]

\* A save that creates the shard directory before it validates.
salvar_cria_pasta_antes(sinal, metadata, ecg_id, output_dir, ts, dirs, files) ==
    LET pasta == [dir |-> output_dir,
                  pasta |-> [prefixo |-> "records",
                             digitos |-> ZeroPad(IF ecg_id < 1 THEN 0 ELSE folder_number(ecg_id), 3)]]
        dirs1 == dirs \cup {pasta}
        a == arquivo_sinal(output_dir, ecg_id)
        b == arquivo_metadata(output_dir, ecg_id)
    IN  IF ecg_id < 1 THEN Efeito(SvRaise("ValueError"), dirs1, files, {})
        ELSE IF size(sinal) = 0 THEN Efeito(SvRaise("ValueError"), dirs1, files, {})
        ELSE LET files1 == escrever(files, a, conteudo_npz(sinal, metadata, ecg_id, ts))
             IN  IF metadata_completo_raises(metadata)
                 THEN Efeito(SvRaise("RuntimeError"), dirs1, files1, {a})
                 ELSE Efeito(SvRetorno(a, b), dirs1,
                             escrever(files1, b, metadata_completo(sinal, metadata, ecg_id, ts)),
                             {a, b})

\* salvar_dados_processados (lines 223-307) as a function of its arguments,
\* the timestamp it reads and the file system it finds; gives what it returns
\* or raises, the file system it leaves and the files it wrote
salvar_dados_processados(sinal, metadata, ecg_id, output_dir, ts, dirs, files) ==
    IF ecg_id < 1 THEN Efeito(SvRaise("ValueError"), dirs, files, {})
    ELSE IF size(sinal) = 0 THEN Efeito(SvRaise("ValueError"), dirs, files, {})
    ELSE LET pasta == [dir |-> output_dir, pasta |-> folder_name(ecg_id)]
             dirs1 == dirs \cup {pasta}
             a == arquivo_sinal(output_dir, ecg_id)
             b == arquivo_metadata(output_dir, ecg_id)
             files1 == escrever(files, a, conteudo_npz(sinal, metadata, ecg_id, ts))
         IN  IF metadata_completo_raises(metadata)
             THEN Efeito(SvRaise("RuntimeError"), dirs1, files1, {a})
             ELSE Efeito(SvRetorno(a, b), dirs1,
                         escrever(files1, b, metadata_completo(sinal, metadata, ecg_id, ts)),
                         {a, b})

SvInit ==
    /\ fs_dirs = {}
    /\ fs_files = <<>>
    /\ fs_origem = <<>>
    /\ relogio = 0
    /\ sv_hist = <<>>
    /\ sv_antes = [dirs |-> {}, files |-> <<>>]

SvArgs(sinal, metadata, ecg_id, output_dir, ts, res) ==
    [sinal |-> sinal, metadata |-> metadata, ecg_id |-> ecg_id,
     output_dir |-> output_dir, ts |-> ts, res |-> res]

\* one call, made at a later tick than the previous one
Salvar(sinal, metadata, ecg_id, output_dir) ==
    /\ Len(sv_hist) < MaxSaves
    /\ \E t \in (relogio + 1)..MaxRelogio :
          LET ts == timestamp_de(t)
              e == salvar_dados_processados(sinal, metadata, ecg_id, output_dir,
                                            ts, fs_dirs, fs_files)
          IN  /\ relogio' = t
              /\ fs_dirs' = e.dirs
              /\ fs_files' = e.files
              /\ fs_origem' = [c \in DOMAIN fs_origem \cup e.escritos |->
                                  IF c \in e.escritos THEN Len(sv_hist) + 1 ELSE fs_origem[c]]
              /\ sv_hist' = Append(sv_hist, SvArgs(sinal, metadata, ecg_id, output_dir, ts, e.res))
              /\ sv_antes' = [dirs |-> fs_dirs, files |-> fs_files]

\* inputs
SvSinais ==
    {Sinal(<<0, 2>>, "vazio", <<>>), Sinal(<<3, 2>>, "a", <<>>), Sinal(<<3>>, "b", <<>>),
     Sinal(<<3, 2, 0>>, "vazio3", <<>>)}
SvQualidade == [i \in 0..1 |-> [snr_estimado |-> IF i = 0 THEN 20 ELSE 10]]
SvMetas ==
    { VazioDict,
      [fs |-> 100, sig_name |-> <<1, 2>>, n_samples |-> 3, n_channels |-> 2],
      [fs |-> 500, sig_name |-> <<1, 2>>, n_samples |-> 3, n_channels |-> 2,
       qualidade |-> SvQualidade],
      [fs |-> 0, sig_name |-> <<1, 2>>, n_samples |-> 3, n_channels |-> 2] }
SvEcgIds == {0, 1, 1001}
SvDirs == {"processed"}

SvSalvar ==
    \E sinal \in SvSinais, metadata \in SvMetas, ecg_id \in SvEcgIds, d \in SvDirs :
        Salvar(sinal, metadata, ecg_id, d)

\* one call on an empty file system, over a long range of identifiers
MaxEcgId == 2600
ShardEcgIds == (-1..MaxEcgId) \cup {9999, 10000, 99999, 100000, 1000000, 1000001}
ShardSalvar ==
    /\ sv_hist = <<>>
    /\ \E ecg_id \in ShardEcgIds, d \in SvDirs :
          Salvar(Sinal(<<3, 2>>, "a", <<>>), VazioDict, ecg_id, d)

Ultimo == sv_hist[Len(sv_hist)]

\* C4: a call with ecg_id < 1 or an empty signal raises ValueError and leaves
\* every directory and file as it found them.
C4_ValidaAntesDeEscrever ==
    (Len(sv_hist) > 0 /\ (Ultimo.ecg_id < 1 \/ size(Ultimo.sinal) = 0)) =>
        /\ Ultimo.res.kind = "raise"
        /\ Ultimo.res.type = "ValueError"
        /\ fs_dirs = sv_antes.dirs
        /\ fs_files = sv_antes.files

\* a rejected call made after a successful one for another record
C4_Witness ==
    /\ Len(sv_hist) = 2
    /\ sv_hist[1].res.kind = "return"
    /\ Ultimo.ecg_id = 1001
    /\ size(Ultimo.sinal) = 0
    /\ Ultimo.res.type = "ValueError"
    /\ Cardinality(fs_dirs) = 1

RECURSIVE Valor(_)
\* the number a digit string reads as
Valor(d) == IF Len(d) = 0 THEN 0 ELSE 10 * Valor(SubSeq(d, 1, Len(d) - 1)) + d[Len(d)]

\* d is n zero-padded to w digits
Preenchido(d, n, w) ==
    /\ Valor(d) = n
    /\ Len(d) >= w
    /\ Len(d) > w => d[1] # 0

\* C5: for ecg_id >= 1 both files are written in folder records<(ecg_id-1)//1000
\* padded to 3 digits> under the names <ecg_id padded to 5 digits>_processed.npz
\* and _metadata.json; 1..1000 go to records000, 1001..2000 to records001 and
\* 2500 to records002/02500_processed.npz.
C5_PastaEArquivo ==
    (Len(sv_hist) > 0 /\ Ultimo.ecg_id >= 1 /\ Ultimo.res.kind = "return") =>
        LET a == Ultimo.res.paths[1]
            b == Ultimo.res.paths[2]
            e == Ultimo.ecg_id
        IN  /\ a \in DOMAIN fs_files /\ b \in DOMAIN fs_files
            /\ a.sufixo = "_processed.npz" /\ b.sufixo = "_metadata.json"
            /\ a.pasta = b.pasta /\ a.dir = Ultimo.output_dir /\ b.dir = Ultimo.output_dir
            /\ [dir |-> a.dir, pasta |-> a.pasta] \in fs_dirs
            /\ a.pasta.prefixo = "records"
            /\ Preenchido(a.pasta.digitos, (e - 1) \div 1000, 3)
            /\ Preenchido(a.digitos, e, 5) /\ b.digitos = a.digitos
            /\ (e \in 1..1000) => a.pasta.digitos = <<0, 0, 0>>
            /\ (e \in 1001..2000) => a.pasta.digitos = <<0, 0, 1>>
            /\ (e = 2500) => a.pasta.digitos = <<0, 0, 2>> /\ a.digitos = <<0, 2, 5, 0, 0>>

C5_Witness ==
    /\ Len(sv_hist) = 1
    /\ Ultimo.ecg_id = 2500
    /\ Ultimo.res.kind = "return"
    /\ Ultimo.res.paths[1].pasta.digitos = <<0, 0, 2>>

\* C6: when a call succeeds for an ecg_id and output_dir that an earlier call
\* succeeded for, it returns the same two paths, and right after it both files
\* hold that call's content only: every npz field and every section of the
\* metadata document is the one its own sinal and metadata give, an absent
\* 'qualidade' giving an empty section.
C6_SegundaSobrescreve ==
    \A i \in 1..Len(sv_hist) :
        LET j == Len(sv_hist)
            u == sv_hist[j]
        IN  (/\ i < j
             /\ sv_hist[i].res.kind = "return" /\ u.res.kind = "return"
             /\ sv_hist[i].ecg_id = u.ecg_id /\ sv_hist[i].output_dir = u.output_dir) =>
                LET npz == fs_files[u.res.paths[1]]
                    doc == fs_files[u.res.paths[2]]
                IN  /\ sv_hist[i].res.paths = u.res.paths
                    /\ DOMAIN npz = {"sinal", "ecg_id", "timestamp", "shape", "fs"}
                    /\ npz.sinal = u.sinal /\ npz.shape = u.sinal.shape
                    /\ npz.ecg_id = u.ecg_id /\ npz.timestamp = u.ts
                    /\ npz.fs = (IF "fs" \in DOMAIN u.metadata THEN u.metadata.fs ELSE 100)
                    /\ DOMAIN doc = {"processamento", "dados_originais", "qualidade", "estatisticas"}
                    /\ doc.processamento.timestamp = u.ts
                    /\ doc.processamento.ecg_id = u.ecg_id
                    /\ doc.dados_originais.fs =
                          (IF "fs" \in DOMAIN u.metadata THEN u.metadata.fs ELSE 100)
                    /\ doc.dados_originais.n_samples =
                          (IF "n_samples" \in DOMAIN u.metadata THEN u.metadata.n_samples ELSE 0)
                    /\ doc.dados_originais.n_channels =
                          (IF "n_channels" \in DOMAIN u.metadata THEN u.metadata.n_channels ELSE 0)
                    /\ doc.dados_originais.sig_name =
                          (IF "sig_name" \in DOMAIN u.metadata THEN u.metadata.sig_name ELSE <<>>)
                    /\ doc.qualidade =
                          (IF "qualidade" \in DOMAIN u.metadata THEN u.metadata.qualidade ELSE <<>>)
                    /\ IF Len(u.sinal.shape) = 2
                       THEN /\ doc.estatisticas.amplitudes_de = u.sinal
                            /\ ("qualidade" \notin DOMAIN u.metadata =>
                                   doc.estatisticas.canais_com_boa_qualidade = 0)
                       ELSE doc.estatisticas = <<>>

\* the first call stored quality metrics, the second one had none
C6_Witness ==
    /\ Len(sv_hist) = 2
    /\ sv_hist[1].res.kind = "return" /\ sv_hist[2].res.kind = "return"
    /\ sv_hist[1].ecg_id = sv_hist[2].ecg_id
    /\ "qualidade" \in DOMAIN sv_hist[1].metadata
    /\ "qualidade" \notin DOMAIN sv_hist[2].metadata
    /\ sv_hist[1].sinal # sv_hist[2].sinal
    /\ fs_files[sv_hist[2].res.paths[2]].qualidade = <<>>

\* C7: whatever calls were made for an ecg_id, failed ones included, the
\* signal archive and the metadata document on disk come from the same call
\* and carry the same timestamp.
C7_SemSobrescritaParcial ==
    \A e \in SvEcgIds, d \in SvDirs :
        LET a == arquivo_sinal(d, e)
            b == arquivo_metadata(d, e)
        IN  (e >= 1 /\ a \in DOMAIN fs_files /\ b \in DOMAIN fs_files) =>
                /\ fs_origem[a] = fs_origem[b]
                /\ fs_files[a].timestamp = fs_files[b].processamento.timestamp

(***************************************************************************)
(* Feature extraction.  Here a signal carries its samples: a sequence of   *)
(* channels, each a sequence of integer samples (a one-dimensional array   *)
(* has dim = 1 and its samples as the only channel).                       *)
(***************************************************************************)
MaxLista == 3           \* length of the canais list

RECURSIVE Soma(_)
Soma(x) == IF Len(x) = 0 THEN 0 ELSE x[1] + Soma(Tail(x))

Minimo(x) == CHOOSE v \in {x[i] : i \in DOMAIN x} : \A i \in DOMAIN x : v <= x[i]
Maximo(x) == CHOOSE v \in {x[i] : i \in DOMAIN x} : \A i \in DOMAIN x : v >= x[i]

\* np.signbit of an integer sample
signbit(v) == v < 0

\* extract_time_features: the reductions that stay within the integers (the
\* mean as sum over count); np.min raises on an empty channel
extract_time_features(canal) ==
    IF Len(canal) = 0 THEN Raise("ValueError", "time", FALSE)
    ELSE Ok([mean |-> [num |-> Soma(canal), den |-> Len(canal)],
             min |-> Minimo(canal),
             max |-> Maximo(canal),
             range |-> Maximo(canal) - Minimo(canal),
             zero_crossings |->
                 Cardinality({i \in 1..(Len(canal) - 1) :
                                 signbit(canal[i]) # signbit(canal[i + 1])})], FALSE)

\* extract_features_canal (lines 212-227): a Python index, so -1 is the last
\* channel; the spectral and entropy features are kept as "those of this
\* channel at this fs"
extract_features_canal(signals, canal_idx, fs) ==
    LET nch == Len(signals.canais)
    IN  IF signals.dim # 2 THEN Raise("ValueError", "validate", FALSE)
        ELSE IF canal_idx >= nch THEN Raise("ValueError", "validate", FALSE)
        ELSE IF canal_idx < -nch THEN Raise("IndexError", "index", FALSE)
        ELSE LET canal == signals.canais[(IF canal_idx < 0 THEN canal_idx + nch ELSE canal_idx) + 1]
                 t == extract_time_features(canal)
             IN  IF t.kind = "raise" THEN t
                 ELSE Ok([time |-> t.val,
                          frequency |-> [de |-> canal, fs |-> fs],
                          entropy |-> [de |-> canal]], FALSE)

\* an .npz file: missing, or the arrays it holds
Npz(existe, dim, canais, chaves) ==
    [existe |-> existe, dim |-> dim, canais |-> canais, chaves |-> chaves]

\* load_signal_processado (lines 17-32): the shape read from the file is a
\* tuple of numpy integers, the fallback sinal.shape one of Python integers
load_signal_processado(arq) ==
    IF ~arq.existe THEN Raise("FileNotFoundError", "load", FALSE)
    ELSE Ok([sinal |-> [dim |-> arq.dim, canais |-> arq.canais],
             metadata |-> [fs |-> IF "fs" \in arq.chaves THEN 500 ELSE 100,
                           shape_numpy |-> "shape" \in arq.chaves,
                           ecg_id |-> IF "ecg_id" \in arq.chaves THEN 7 ELSE -1]], FALSE)

\* save_features (lines 230-259): json.dump has no default= and raises
\* TypeError on the numpy integers of metadata['shape']
save_features_raises(metadata) == metadata.shape_numpy

\* An except clause that drops what the earlier channels gave.
registrar_falha_limpa(resultados, canal) == [c \in {canal} |-> VazioDict]

\* resultados[canal] = {} (line 336)
registrar_falha(resultados, canal) ==
    [c \in DOMAIN resultados \cup {canal} |-> IF c = canal THEN VazioDict ELSE resultados[c]]

\* resultados[canal] = features (line 326)
registrar(resultados, canal, features) ==
    [c \in DOMAIN resultados \cup {canal} |-> IF c = canal THEN features ELSE resultados[c]]

McInit ==
    /\ mc_pc = "idle"
    /\ mc_args = NoCall
    /\ mc_signals = NoCall
    /\ mc_metadata = NoMeta
    /\ mc_canais = <<>>
    /\ mc_i = 0
    /\ mc_resultados = <<>>
    /\ mc_salvos = <<>>
    /\ mc_result = NoCall

McDados == <<<<1, -1, 2>>, <<0, 0, 0>>, <<3, 0, -2>>>>
McArquivos ==
    { Npz(FALSE, 0, <<>>, {}),
      Npz(TRUE, 1, <<<<1, -1, 2>>>>, {"fs"}),
      Npz(TRUE, 2, McDados, {"fs", "ecg_id"}),
      Npz(TRUE, 2, McDados, {"fs", "ecg_id", "shape"}),
      Npz(TRUE, 2, <<<<>>, <<>>>>, {}) }
McIndices == {-4, -1, 0, 1, 3}
McListas == UNION {[1..n -> McIndices] : n \in 0..MaxLista}
\* the canais argument: None or a list
None == [none |-> TRUE, lista |-> <<>>]
Lista(l) == [none |-> FALSE, lista |-> l]
McCanaisArgs == {None} \cup {Lista(l) : l \in McListas}

\* lines 309-321, up to the loop
McStart ==
    /\ mc_pc = "idle"
    /\ \E arq \in McArquivos, canais \in McCanaisArgs, salvar \in BOOLEAN :
          LET r == load_signal_processado(arq)
          IN  /\ mc_args' = [filepath_npz |-> arq, canais |-> canais, salvar_features |-> salvar]
              /\ IF r.kind = "raise"
                 THEN /\ mc_result' = [kind |-> "raise", type |-> r.type, resultados |-> <<>>]
                      /\ mc_pc' = "done"
                      /\ UNCHANGED <<mc_signals, mc_metadata, mc_canais>>
                 ELSE IF r.val.sinal.dim # 2
                 THEN /\ mc_result' = [kind |-> "raise", type |-> "ValueError", resultados |-> <<>>]
                      /\ mc_pc' = "done"
                      /\ mc_signals' = r.val.sinal
                      /\ mc_metadata' = r.val.metadata
                      /\ UNCHANGED mc_canais
                 ELSE /\ mc_signals' = r.val.sinal
                      /\ mc_metadata' = r.val.metadata
                      /\ mc_canais' = IF canais = None
                                      THEN [i \in 1..Len(r.val.sinal.canais) |-> i - 1]
                                      ELSE canais.lista
                      /\ mc_pc' = "loop"
                      /\ UNCHANGED mc_result
    /\ UNCHANGED <<mc_i, mc_resultados, mc_salvos>>

\* one iteration of the loop (lines 323-336)
McCanal ==
    /\ mc_pc = "loop"
    /\ mc_i < Len(mc_canais)
    /\ LET canal == mc_canais[mc_i + 1]
           r == extract_features_canal(mc_signals, canal, mc_metadata.fs)
       IN  IF r.kind = "raise"
           THEN /\ mc_resultados' = registrar_falha(mc_resultados, canal)
                /\ UNCHANGED mc_salvos
           ELSE IF mc_args.salvar_features
                THEN IF save_features_raises(mc_metadata)
                     THEN /\ mc_resultados' =
                               registrar_falha(registrar(mc_resultados, canal, r.val), canal)
                          /\ UNCHANGED mc_salvos
                     ELSE /\ mc_resultados' = registrar(mc_resultados, canal, r.val)
                          /\ mc_salvos' = Append(mc_salvos, canal)
                ELSE /\ mc_resultados' = registrar(mc_resultados, canal, r.val)
                     /\ UNCHANGED mc_salvos
    /\ mc_i' = mc_i + 1
    /\ UNCHANGED <<mc_pc, mc_args, mc_signals, mc_metadata, mc_canais, mc_result>>

\* lines 338-341
McReturn ==
    /\ mc_pc = "loop"
    /\ mc_i = Len(mc_canais)
    /\ mc_result' = [kind |-> "return", type |-> "none", resultados |-> mc_resultados]
    /\ mc_pc' = "done"
    /\ UNCHANGED <<mc_args, mc_signals, mc_metadata, mc_canais, mc_i, mc_resultados, mc_salvos>>

\* the channels the call asks for
McPedidos ==
    IF mc_args.canais = None
    THEN 0..(Len(mc_signals.canais) - 1)
    ELSE {mc_args.canais.lista[i] : i \in DOMAIN mc_args.canais.lista}

\* processing of channel c fails: no such channel, no samples, or the
\* features cannot be saved
McFalha(c) ==
    \/ c >= Len(mc_signals.canais)
    \/ c < -Len(mc_signals.canais)
    \/ \E k \in DOMAIN mc_signals.canais : Len(mc_signals.canais[k]) = 0
    \/ mc_args.salvar_features /\ "shape" \in mc_args.filepath_npz.chaves

\* C8: the mapping returned has exactly the requested channels as keys (all
\* channels when canais is None); a channel whose processing fails has the
\* empty feature set and the others have the features of their own channel,
\* whatever other channels were requested.
C8_IsolamentoPorCanal ==
    (mc_result # NoCall /\ mc_result.kind = "return") =>
        /\ DOMAIN mc_result.resultados = McPedidos
        /\ \A c \in McPedidos :
              IF McFalha(c)
              THEN mc_result.resultados[c] = <<>>
              ELSE /\ mc_result.resultados[c] # <<>>
                   /\ mc_result.resultados[c] =
                         extract_features_canal(mc_signals, c, mc_metadata.fs).val

\* a failing channel between two channels that succeed
C8_Witness ==
    /\ mc_result # NoCall
    /\ mc_result.kind = "return"
    /\ mc_args.canais = Lista(<<0, 3, 1>>)
    /\ mc_salvos = <<0, 1>>
    /\ mc_result.resultados[3] = <<>>
    /\ mc_result.resultados[0].time.zero_crossings = 2
    /\ mc_result.resultados[1].time.max = 0

(***************************************************************************)
(* normalizar_sinal on sample values.  Samples are integers; a normalised  *)
(* sample is the exact number num / (den * sqrt(rad)).                     *)
(***************************************************************************)
MaxAmostras == 3        \* samples per channel
MaxCanaisNz == 2        \* channels per array

Num(num, den, rad) == [num |-> num, den |-> den, rad |-> rad]

\* k-th smallest sample of x
Ordenado(x, k) ==
    CHOOSE v \in {x[i] : i \in DOMAIN x} :
        /\ Cardinality({i \in DOMAIN x : x[i] < v}) < k
        /\ Cardinality({i \in DOMAIN x : x[i] <= v}) >= k

\* twice np.median(x)
mediana2(x) ==
    LET n == Len(x)
    IN  IF n % 2 = 1 THEN 2 * Ordenado(x, (n + 1) \div 2)
        ELSE Ordenado(x, n \div 2) + Ordenado(x, n \div 2 + 1)

Abs(v) == IF v < 0 THEN -v ELSE v

\* four times np.median(np.abs(x - mediana))
mad4(x) == mediana2([i \in DOMAIN x |-> Abs(2 * x[i] - mediana2(x))])

\* n^2 times the variance of x, zero exactly when np.std(x) is
var_n2(x) == Len(x) * Soma([i \in DOMAIN x |-> x[i] * x[i]]) - Soma(x) * Soma(x)

\* the body of the channel loop (lines 84-106); for an empty channel the
\* mean, the std and the median are nan and the empty result is stored
normalizar_canal(x, metodo) ==
    IF Len(x) = 0 THEN <<>>
    ELSE IF metodo = "minmax"
    THEN IF Maximo(x) - Minimo(x) = 0
         THEN [i \in DOMAIN x |-> Num(x[i], 1, 1)]
         ELSE [i \in DOMAIN x |-> Num(x[i] - Minimo(x), Maximo(x) - Minimo(x), 1)]
    ELSE IF metodo = "zscore"
    THEN IF var_n2(x) = 0
         THEN [i \in DOMAIN x |-> Num(Len(x) * x[i] - Soma(x), Len(x), 1)]
         ELSE [i \in DOMAIN x |-> Num(Len(x) * x[i] - Soma(x), 1, var_n2(x))]
    ELSE IF mad4(x) = 0
         THEN [i \in DOMAIN x |-> Num(2 * x[i] - mediana2(x), 2, 1)]
         ELSE [i \in DOMAIN x |-> Num(2 * (2 * x[i] - mediana2(x)), mad4(x), 1)]

\* storing a float into the integer array np.zeros_like gave: the fraction
\* is cut towards zero
truncar(v) ==
    LET k == CHOOSE k \in 0..Abs(v.num) :
                 /\ k * k * v.den * v.den * v.rad <= v.num * v.num
                 /\ (k + 1) * (k + 1) * v.den * v.den * v.rad > v.num * v.num
    IN  Num(IF (v.num < 0) # (v.den < 0) THEN -k ELSE k, 1, 1)

Matriz(dim, dtype, canais) == [dim |-> dim, dtype |-> dtype, canais |-> canais]

\* the largest odd divisor of a positive integer
RECURSIVE parte_impar(_)
parte_impar(q) == IF q % 2 = 0 THEN parte_impar(q \div 2) ELSE q

\* p / q is a binary fraction, which binary64 holds exactly at these sizes
diadico(p, q) == p % parte_impar(q) = 0

\* np.mean and np.std of an integer channel come out exact in binary64:
\* the mean S/n and the std sqrt(V)/n are binary fractions
zscore_exato(x) ==
    /\ diadico(Soma(x), Len(x))
    /\ \E r \in 0..var_n2(x) : r * r = var_n2(x) /\ diadico(r, Len(x))

\* the integers the store of sample v into an integer array may leave.  The
\* quotient is computed in binary64: when its operands are exact, or its
\* exact value is not a non-zero integer, the cut is that of the exact
\* value; when mean or std were rounded and the exact value is a non-zero
\* integer k, the float lands on k or just beside it and the cut leaves k
\* or the integer next to it towards zero.
armazenados(v, exato) ==
    LET t == truncar(v)
        inteiro == t.num * t.num * v.den * v.den * v.rad = v.num * v.num
    IN  IF exato \/ ~inteiro \/ t.num = 0 THEN {t}
        ELSE {t, Num(IF t.num > 0 THEN t.num - 1 ELSE t.num + 1, 1, 1)}

\* what the loop may leave in column x of sinal_normalizado (line 81: of
\* the dtype of the input)
colunas(x, dtype, metodo) ==
    LET y == normalizar_canal(x, metodo)
    IN  IF dtype # "int64" THEN {y}
        ELSE {z \in [DOMAIN y -> UNION {armazenados(y[i], metodo # "zscore" \/ zscore_exato(x)) :
                                           i \in DOMAIN y}] :
                 \A i \in DOMAIN y :
                     z[i] \in armazenados(y[i], metodo # "zscore" \/ zscore_exato(x))}

\* normalizar_sinal (lines 71-108) on an array with its samples: a 1-D array
\* is reshaped to one column and the result is always two-dimensional, of
\* the dtype of the input; np.min of an empty channel raises.  The value is
\* the set of outcomes, one unless a rounded quotient is stored in integers.
normalizar_sinal_amostras(sinal, metodo) ==
    IF metodo \notin Metodos THEN {Raise("ValueError", "validate", FALSE)}
    ELSE IF metodo = "minmax" /\ \E c \in DOMAIN sinal.canais : Len(sinal.canais[c]) = 0
    THEN {Raise("ValueError", "metrics", FALSE)}
    ELSE {Ok(Matriz(2, sinal.dtype, cs), FALSE) :
             cs \in {m \in [DOMAIN sinal.canais ->
                              UNION {colunas(sinal.canais[c], sinal.dtype, metodo) :
                                        c \in DOMAIN sinal.canais}] :
                        \A c \in DOMAIN sinal.canais :
                            m[c] \in colunas(sinal.canais[c], sinal.dtype, metodo)}}

NzInit == nz_call = NoCall /\ nz_res = NoCall /\ nz_array = NoCall

NzValores == {-2, 0, 5}
NzCanais == UNION {[1..n -> NzValores] : n \in 1..MaxAmostras}
NzMatrizes ==
    {Matriz(1, t, <<x>>) : t \in {"float64", "int64"}, x \in NzCanais}
    \cup UNION {{Matriz(2, t, cs) : t \in {"float64", "int64"},
                     cs \in {m \in [1..k -> NzCanais] :
                                \A i \in 1..k : Len(m[i]) = Len(m[1])}} : k \in 1..MaxCanaisNz}
NzMetodos == Metodos \cup {"l2"}

NzCall ==
    /\ nz_call = NoCall
    /\ \E sinal \in NzMatrizes, metodo \in NzMetodos :
        /\ nz_call' = [sinal |-> sinal, metodo |-> metodo]
        /\ nz_res' \in normalizar_sinal_amostras(sinal, metodo)
        /\ nz_array' = sinal

Constante(x) == \A i \in DOMAIN x : x[i] = x[1]

\* the divisor of a normalised sample is not zero
Finito(y) == \A i \in DOMAIN y : y[i].den # 0 /\ y[i].rad > 0

\* the values the normaliser is said to give for channel c of the call
NzValoresCertos(c) ==
    LET x == nz_call.sinal.canais[c]
        y == nz_res.val.canais[c]
        m == nz_call.metodo
    IN  /\ Len(y) = Len(x)
        /\ Finito(y)
        /\ (m = "zscore" /\ Constante(x)) => \A i \in DOMAIN y : y[i].num = 0
        /\ (m = "minmax" /\ Constante(x)) => \A i \in DOMAIN y : y[i] = Num(x[i], 1, 1)
        /\ (m = "robust" /\ mad4(x) = 0 /\ nz_call.sinal.dtype = "float64") =>
              \A i \in DOMAIN y : y[i].num * 2 = (2 * x[i] - mediana2(x)) * y[i].den /\ y[i].rad = 1
        /\ y \in colunas(x, nz_call.sinal.dtype, m)

\* the part of the claim that holds for arrays of either dimension
NzSemForma ==
    nz_call # NoCall =>
        IF nz_call.metodo \notin {"zscore", "minmax", "robust"}
        THEN nz_res.kind = "raise" /\ nz_res.type = "ValueError"
        ELSE /\ nz_res.kind = "ok"
             /\ DOMAIN nz_res.val.canais = DOMAIN nz_call.sinal.canais
             /\ \A c \in DOMAIN nz_call.sinal.canais : NzValoresCertos(c)
             /\ nz_array = nz_call.sinal

\* C10: each channel is normalised on its own and no divisor is zero; a
\* constant channel gives zeros under zscore and itself under minmax, a
\* channel with zero MAD gives x - median under robust; an unknown method
\* raises ValueError; the output has the shape of the input and the input
\* array is left as it was.
C10_Normalizacao ==
    /\ NzSemForma
    /\ (nz_call # NoCall /\ nz_res.kind = "ok") => nz_res.val.dim = nz_call.sinal.dim

(***************************************************************************)
(* verificar_qualidade_sinal on sample values                              *)
(***************************************************************************)
\* np.diff(x)
diff(x) == [i \in 1..(Len(x) - 1) |-> x[i + 1] - x[i]]

\* np.std(x) == 0; the std of an empty array is nan, which equals nothing
std_zero(x) == Len(x) > 0 /\ var_n2(x) = 0

\* np.sign of an integer sample
sign(v) == IF v < 0 THEN -1 ELSE IF v > 0 THEN 1 ELSE 0

Fixo(v) == [tipo |-> "fixo", valor |-> v, razao |-> <<>>]
\* 20 * log10(std_canal / (std_diff + 1e-10)), kept as the two variances
\* (times the square of the count) and the counts
Log10(x) == [tipo |-> "log", valor |-> 0,
             razao |-> <<var_n2(x), Len(x), var_n2(diff(x)), Len(diff(x))>>]

\* lines 159-168: the branch order of the code
snr_estimado(canal) ==
    IF std_zero(diff(canal)) THEN Fixo(100)
    ELSE IF std_zero(canal) THEN Fixo(0)
    ELSE Log10(canal)

\* lines 171-185: the metrics of one channel (at least one sample)
metricas_canal(canal) ==
    LET amp_max == Maximo([i \in DOMAIN canal |-> Abs(canal[i])])
    IN  [snr_estimado |-> snr_estimado(canal),
         amplitude_maxima |-> amp_max,
         saturacao |->
             IF amp_max = 0 THEN [num |-> 0, den |-> 1]
             ELSE [num |-> Cardinality({i \in DOMAIN canal : 100 * Abs(canal[i]) > 95 * amp_max}),
                   den |-> Len(canal)],
         zero_crossings |->
             Cardinality({i \in 1..(Len(canal) - 1) : sign(canal[i + 1]) - sign(canal[i]) # 0}),
         rms |-> [soma_quadrados |-> Soma([i \in DOMAIN canal |-> canal[i] * canal[i]]),
                  n |-> Len(canal)]]

\* verificar_qualidade_sinal (lines 142-187) on an array with its samples;
\* the entry 'canal_i' is entry i of the result
verificar_qualidade_amostras(sinal, fs) ==
    IF fs <= 0 THEN Raise("ValueError", "validate", FALSE)
    ELSE IF \E c \in DOMAIN sinal.canais : Len(sinal.canais[c]) = 0
         THEN Raise("ValueError", "metrics", FALSE)
         ELSE Ok([i \in 0..(Len(sinal.canais) - 1) |-> metricas_canal(sinal.canais[i + 1])], FALSE)

QlInit == ql_call = NoCall /\ ql_res = NoCall

QlCanais == UNION {[1..n -> {-2, 0, 2}] : n \in 1..MaxAmostras}
\* one-dimensional arrays over QlCanais, and arrays of shape (n, k) whose
\* samples are 0 or 2
QlMatrizes ==
    {Matriz(1, "float64", <<x>>) : x \in QlCanais}
    \cup UNION {{Matriz(2, "float64", cs) : cs \in [1..k -> [1..n -> {0, 2}]]} :
                   n \in 1..MaxAmostras, k \in 1..MaxCanaisNz}
QlFs == {0, 100}

QlCall ==
    /\ ql_call = NoCall
    /\ \E sinal \in QlMatrizes, fs \in QlFs :
          /\ ql_call' = [sinal |-> sinal, fs |-> fs]
          /\ ql_res' = verificar_qualidade_amostras(sinal, fs)

\* C11: a channel whose standard deviation is zero has snr_estimado 0,
\* whatever its length, and snr_estimado is 100 only for a channel whose
\* first difference has zero standard deviation while the channel has not.
C11_SnrSentinelas ==
    (ql_call # NoCall /\ ql_res.kind = "ok") =>
        \A c \in DOMAIN ql_call.sinal.canais :
            LET x == ql_call.sinal.canais[c]
                snr == ql_res.val[c - 1].snr_estimado
            IN  /\ Constante(x) => snr = Fixo(0)
                /\ snr = Fixo(100) => (~Constante(x) /\ Constante(diff(x)))

(***************************************************************************)
(* extract_features_canal and pipeline_extract_features called directly    *)
(***************************************************************************)
\* pipeline_extract_features (lines 183-209): signal[:, canal] is a Python
\* index, so a negative canal counts from the last channel
pipeline_extract_features(arq, canal) ==
    LET r == load_signal_processado(arq)
    IN  IF r.kind = "raise" THEN r
        ELSE LET signal == r.val.sinal
                 nch == Len(signal.canais)
             IN  IF signal.dim = 2 /\ canal >= nch THEN Raise("ValueError", "validate", FALSE)
                 ELSE IF signal.dim = 2 /\ canal < -nch THEN Raise("IndexError", "index", FALSE)
                 ELSE IF signal.dim = 1 /\ canal # 0 THEN Raise("ValueError", "validate", FALSE)
                 ELSE IF signal.dim \notin {1, 2} THEN Raise("ValueError", "validate", FALSE)
                 ELSE LET x == IF signal.dim = 1 THEN signal.canais[1]
                               ELSE signal.canais[(IF canal < 0 THEN canal + nch ELSE canal) + 1]
                          t == extract_time_features(x)
                      IN  IF t.kind = "raise" THEN t
                          ELSE Ok([features |-> [time |-> t.val,
                                                 frequency |-> [de |-> x, fs |-> r.val.metadata.fs],
                                                 entropy |-> [de |-> x]],
                                   canal_analisado |-> canal], FALSE)

FxInit == fx_call = NoCall /\ fx_res = NoCall

FxCanais == [1..MaxAmostras -> {-1, 2}]
\* arrays of shape (MaxAmostras,) and (MaxAmostras, k)
FxSinais ==
    {[dim |-> 1, canais |-> <<x>>] : x \in FxCanais}
    \cup UNION {{[dim |-> 2, canais |-> cs] : cs \in [1..k -> FxCanais]} : k \in 1..MaxCanaisNz}
FxArquivos ==
    {Npz(FALSE, 0, <<>>, {})} \cup {Npz(TRUE, m.dim, m.canais, {"fs"}) : m \in FxSinais}
FxIndices == (0 - MaxCanaisNz - 1)..(MaxCanaisNz + 1)

\* a direct call of extract_features_canal
FxCanal ==
    /\ fx_call = NoCall
    /\ \E signals \in FxSinais, canal_idx \in FxIndices :
          /\ fx_call' = [fn |-> "extract_features_canal", existe |-> TRUE,
                         sinal |-> signals, canal |-> canal_idx]
          /\ fx_res' = extract_features_canal(signals, canal_idx, 100)

\* a direct call of pipeline_extract_features
FxPipeline ==
    /\ fx_call = NoCall
    /\ \E arq \in FxArquivos, canal \in FxIndices :
          /\ fx_call' = [fn |-> "pipeline_extract_features", existe |-> arq.existe,
                         sinal |-> [dim |-> arq.dim, canais |-> arq.canais], canal |-> canal]
          /\ fx_res' = pipeline_extract_features(arq, canal)

\* the features the call returned
FxFeatures ==
    IF fx_call.fn = "extract_features_canal" THEN fx_res.val ELSE fx_res.val.features

\* C13: both functions raise a validation error for every channel index
\* outside 0..channels-1, negative ones included, and a call that returns
\* has extracted the features of the channel at the requested position.
C13_IndiceDeCanal ==
    (fx_call # NoCall /\ fx_call.existe) =>
        LET nch == Len(fx_call.sinal.canais)
        IN  /\ fx_call.canal \notin 0..(nch - 1) =>
                  (fx_res.kind = "raise" /\ fx_res.type = "ValueError")
            /\ fx_res.kind = "ok" =>
                  /\ fx_call.canal \in 0..(nch - 1)
                  /\ FxFeatures.time = extract_time_features(fx_call.sinal.canais[fx_call.canal + 1]).val
                  /\ FxFeatures.frequency.de = fx_call.sinal.canais[fx_call.canal + 1]
                  /\ FxFeatures.entropy.de = fx_call.sinal.canais[fx_call.canal + 1]

(***************************************************************************)
(* extract_frequency_features.  A power spectrum is a sequence of          *)
(* numerators over a common denominator (escala); frequencies and the      *)
(* rational features are fractions, the features that need a square root   *)
(* are kept as "derived from this spectrum".                               *)
(***************************************************************************)
MaxBins == 3            \* bins of a power spectrum given directly

Fracao(n, d) == [num |-> IF n = 0 THEN 0 ELSE n, den |-> IF n = 0 THEN 1 ELSE d,
                 raiz |-> FALSE, de |-> <<>>]
Zero == Fracao(0, 1)
Derivado(power) == [num |-> 0, den |-> 0, raiz |-> TRUE, de |-> power]

\* the keys of the returned dictionary (lines 88-97 and 125-134)
ChavesFrequencia ==
    {"spectral_centroid", "spectral_bandwidth", "spectral_rolloff", "spectral_flux",
     "dominant_frequency", "fft_mean", "fft_std", "band_energy_0_5_45Hz"}

\* scipy.signal.windows.hann(n), symmetric, as numerators over 4
hann(n) ==
    IF n = 1 THEN <<4>>
    ELSE IF n = 2 THEN <<0, 0>>
    ELSE IF n = 3 THEN <<0, 4, 0>>
    ELSE <<0, 3, 3, 0>>

\* (np.abs(fft(y))[:N // 2]) ** 2 for up to four samples
fft_power(y) ==
    IF Len(y) = 1 THEN <<>>
    ELSE IF Len(y) \in {2, 3} THEN <<Soma(y) * Soma(y)>>
    ELSE <<Soma(y) * Soma(y),
           (y[1] - y[3]) * (y[1] - y[3]) + (y[2] - y[4]) * (y[2] - y[4])>>

\* np.cumsum(power)[k - 1]
cumsum(power, k) == Soma(SubSeq(power, 1, k))

\* A rolloff that asks for more than 85% of the energy.
rolloff_idx_estrito(power) ==
    {k \in DOMAIN power : 100 * cumsum(power, k) > 85 * cumsum(power, Len(power))}

\* np.where(cumsum_power >= 0.85 * cumsum_power[-1])[0], bins counted from 1
rolloff_idx(power) ==
    {k \in DOMAIN power : 100 * cumsum(power, k) >= 85 * cumsum(power, Len(power))}

\* lines 84-134, from the power spectrum on; freqs[k] = k * fs / N
frequency_features(power, escala, N, fs) ==
    IF Soma(power) = 0 THEN [k \in ChavesFrequencia |-> Zero]
    ELSE LET freq(k) == Fracao((k - 1) * fs, N)
             idx == rolloff_idx(power)
             menor(S) == CHOOSE k \in S : \A j \in S : k <= j
             dominant_idx == menor({k \in DOMAIN power : power[k] = Maximo(power)})
             band == [k \in DOMAIN power |->
                         IF 2 * (k - 1) * fs >= N /\ (k - 1) * fs <= 45 * N THEN power[k] ELSE 0]
         IN  [k \in ChavesFrequencia |->
                CASE k = "spectral_centroid" ->
                         Fracao(Soma([j \in DOMAIN power |-> (j - 1) * fs * power[j]]),
                                N * Soma(power))
                  [] k = "spectral_rolloff" ->
                         IF idx # {} THEN freq(menor(idx)) ELSE freq(Len(power))
                  [] k = "spectral_flux" ->
                         Fracao(Soma([j \in 1..(Len(power) - 1) |->
                                         (power[j + 1] - power[j]) * (power[j + 1] - power[j])]),
                                escala * escala)
                  [] k = "dominant_frequency" -> freq(dominant_idx)
                  [] k = "band_energy_0_5_45Hz" -> Fracao(Soma(band), escala)
                  [] OTHER -> Derivado(power)]

\* a one-dimensional array: its dtype and its samples
Vetor(dtype, amostras) == [dtype |-> dtype, amostras |-> amostras]

\* a quotient cut towards zero, as a store of a float into an integer array
corta(a, d) == IF a >= 0 THEN a \div d ELSE 0 - ((0 - a) \div d)

\* aplicar_janelamento (lines 156-180) with the hann window: the product is
\* stored into sinal.copy(), which keeps the dtype of the input, so on an
\* integer array the windowed samples are cut towards zero.  The samples are
\* numerators over 4 for a float array and integers for an integer one.
aplicar_janelamento(signal) ==
    LET x == signal.amostras
        w == hann(Len(x))
    IN  IF signal.dtype = "int64"
        THEN [i \in DOMAIN x |-> corta(x[i] * w[i], 4)]
        ELSE [i \in DOMAIN x |-> x[i] * w[i]]

\* the denominator of the power spectrum of a call
escala_de(signal, aplicar_janela) ==
    IF aplicar_janela /\ signal.dtype # "int64" THEN 16 ELSE 1

\* the spectrum extract_frequency_features forms (lines 68-84), over escala_de
power_de(signal, aplicar_janela) ==
    IF aplicar_janela
    THEN fft_power(aplicar_janelamento(signal))
    ELSE fft_power(signal.amostras)

\* extract_frequency_features (lines 59-134); an empty signal gives {}
extract_frequency_features(signal, fs, aplicar_janela) ==
    IF Len(signal.amostras) = 0 THEN <<>>
    ELSE frequency_features(power_de(signal, aplicar_janela),
                            escala_de(signal, aplicar_janela), Len(signal.amostras), fs)

FqInit == fq_call = NoCall /\ fq_power = <<>> /\ fq_res = NoCall

\* integer and float arrays of up to four samples
FqSinais ==
    {Vetor(t, x) : t \in {"int64", "float64"}, x \in UNION {[1..n -> {-1, 0, 2}] : n \in 0..4}}
FqFs == {100, 250}
FqEspectros == UNION {[1..n -> {0, 1, 3, 17}] : n \in 1..MaxBins}

\* a call with a signal
FqCall ==
    /\ fq_call = NoCall
    /\ \E signal \in FqSinais, fs \in FqFs, aplicar_janela \in BOOLEAN :
          /\ fq_call' = [N |-> Len(signal.amostras), fs |-> fs,
                         escala |-> escala_de(signal, aplicar_janela)]
          /\ fq_power' = IF Len(signal.amostras) = 0 THEN <<>>
                         ELSE power_de(signal, aplicar_janela)
          /\ fq_res' = extract_frequency_features(signal, fs, aplicar_janela)

\* a call whose signal of N samples has the given power spectrum
FqEspectro ==
    /\ fq_call = NoCall
    /\ \E power \in FqEspectros, fs \in FqFs, impar \in {0, 1} :
          /\ fq_call' = [N |-> 2 * Len(power) + impar, fs |-> fs, escala |-> 1]
          /\ fq_power' = power
          /\ fq_res' = frequency_features(power, 1, 2 * Len(power) + impar, fs)

\* C14: with non-zero total energy, spectral_rolloff is the frequency of a
\* bin whose cumulative energy is at least 85% of the total while the bin
\* before it (if any) is below 85%; with zero total energy all eight
\* features are 0.0; the keys are the same eight in both cases.
C14_Rolloff ==
    (fq_call # NoCall /\ fq_call.N >= 1) =>
        LET total == Soma(fq_power)
        IN  /\ DOMAIN fq_res = ChavesFrequencia
            /\ total = 0 => \A k \in ChavesFrequencia : fq_res[k] = Zero
            /\ total # 0 =>
                  \E k \in DOMAIN fq_power :
                      /\ fq_res["spectral_rolloff"] = Fracao((k - 1) * fq_call.fs, fq_call.N)
                      /\ 100 * cumsum(fq_power, k) >= 85 * total
                      /\ k > 1 => 100 * cumsum(fq_power, k - 1) < 85 * total

\* a spectrum whose second bin brings the cumulative energy to exactly 85%
C14_Witness ==
    /\ fq_call # NoCall
    /\ fq_power = <<0, 17, 3>>
    /\ fq_res["spectral_rolloff"] = Fracao(fq_call.fs, fq_call.N)

(***************************************************************************)
(* The two zero_crossings counters on the same channel                     *)
(***************************************************************************)
ZcInit == zc_canal = <<>> /\ zc_qualidade = NoCall /\ zc_tempo = NoCall


\* a channel is recorded
ZcCanal ==
    /\ zc_canal = <<>>
    /\ \E canal \in QlCanais : zc_canal' = canal
    /\ UNCHANGED <<zc_qualidade, zc_tempo>>

\* verificar_qualidade_sinal(canal, fs)
ZcQualidade ==
    /\ zc_canal # <<>>
    /\ zc_qualidade = NoCall
    /\ zc_qualidade' = verificar_qualidade_amostras(Matriz(1, "float64", <<zc_canal>>), 100)
    /\ UNCHANGED <<zc_canal, zc_tempo>>

\* extract_time_features(canal)
ZcTempo ==
    /\ zc_canal # <<>>
    /\ zc_tempo = NoCall
    /\ zc_tempo' = extract_time_features(zc_canal)
    /\ UNCHANGED <<zc_canal, zc_qualidade>>

\* C15: for the same channel the quality assessor and the time-domain
\* extractor report the same zero_crossings, the number of sign changes
\* between consecutive samples, samples equal to zero included.
C15_MesmoZeroCrossings ==
    (zc_qualidade # NoCall /\ zc_tempo # NoCall) =>
        /\ zc_qualidade.kind = "ok"
        /\ zc_tempo.kind = "ok"
        /\ zc_qualidade.val[0].zero_crossings = zc_tempo.val.zero_crossings

(***************************************************************************)
(* Specifications                                                          *)
(***************************************************************************)
Init == ClfInit /\ FltInit /\ PipeInit /\ SvInit /\ McInit /\ NzInit /\ QlInit /\ FxInit /\ FqInit /\ ZcInit

NextClassifier ==
    \/ ClfTrain /\ UNCHANGED foraClf
    \/ ClfPredict /\ UNCHANGED foraClf
    \/ ClfEvaluate /\ UNCHANGED foraClf

SpecClassifier == Init /\ [][NextClassifier]_vars

NextFiltro == FltCall /\ UNCHANGED foraFlt

SpecFiltro == Init /\ [][NextFiltro]_vars

NextPipeline ==
    \/ PipeStart /\ UNCHANGED foraPipe
    \/ PipeLoad /\ UNCHANGED foraPipe
    \/ PipeDrift /\ UNCHANGED foraPipe
    \/ PipeBand /\ UNCHANGED foraPipe
    \/ PipeNorm /\ UNCHANGED foraPipe
    \/ PipeQual /\ UNCHANGED foraPipe

SpecPipeline == Init /\ [][NextPipeline]_vars

NextPersist == SvSalvar /\ UNCHANGED foraSv

SpecPersist == Init /\ [][NextPersist]_vars

NextShard == ShardSalvar /\ UNCHANGED foraSv

SpecShard == Init /\ [][NextShard]_vars

NextMulticanal ==
    \/ McStart /\ UNCHANGED foraMc
    \/ McCanal /\ UNCHANGED foraMc
    \/ McReturn /\ UNCHANGED foraMc

SpecMulticanal == Init /\ [][NextMulticanal]_vars

NextNormalizar == NzCall /\ UNCHANGED foraNz

SpecNormalizar == Init /\ [][NextNormalizar]_vars

NextQualidade == QlCall /\ UNCHANGED foraQl

SpecQualidade == Init /\ [][NextQualidade]_vars

NextFeatures ==
    \/ FxCanal /\ UNCHANGED foraFx
    \/ FxPipeline /\ UNCHANGED foraFx

SpecFeatures == Init /\ [][NextFeatures]_vars

NextFrequency ==
    \/ FqCall /\ UNCHANGED foraFq
    \/ FqEspectro /\ UNCHANGED foraFq

SpecFrequency == Init /\ [][NextFrequency]_vars

NextZeroCrossings ==
    \/ ZcCanal /\ UNCHANGED foraZc
    \/ ZcQualidade /\ UNCHANGED foraZc
    \/ ZcTempo /\ UNCHANGED foraZc

SpecZeroCrossings == Init /\ [][NextZeroCrossings]_vars
====
